---- MODULE Spec2Model ----
(***************************************************************************)
(* Model of the War card-game engine of WAR.py (class War).                *)
(*                                                                         *)
(* The state is the engine object: the two players' hand and discard       *)
(* lists, the winnings list, the _tracks list, the summary dictionary and  *)
(* the two dealt lists, which __reset_game binds to the players' hands     *)
(* (the same list object from then on).  play_game is a loop; one          *)
(* iteration of the loop is one step of the model.                         *)
(***************************************************************************)
EXTENDS Integers, Sequences, FiniteSets, TLC

VARIABLES
    player_1,       \* [hand, discard] of player 1
    player_2,       \* [hand, discard] of player 2
    winnings,       \* self._winnings
    tracks,         \* self._tracks
    summary,        \* self.summary: [hands_played, finished, tracks]
    dealt_1,        \* self._player_1_dealt (a list object, mutable)
    dealt_2,        \* self._player_2_dealt
    aliased,        \* TRUE once __reset_game has bound player['hand'] to the dealt list
    mode,           \* self.discard_recycle_mode
    randomness,     \* self.discard_randomness
    pc,             \* "idle" between calls, "loop" inside play_game's while loop
    caller,         \* the public method that is running play_game
    hand,           \* play_game's local counter `hand`
    max_hands,      \* play_game's parameter max_hands
    last,           \* the latest _do_battle: play_1, play_2, wagers, pool compared
    error,          \* exception raised by the latest call, "none" if it returned
    starting_hands, \* the value of the starting_hands argument at construction
    resets          \* number of __reset_game calls so far

vars == <<player_1, player_2, winnings, tracks, summary, dealt_1, dealt_2,
          aliased, mode, randomness, pc, caller, hand, max_hands, last,
          error, starting_hands, resets>>

----------------------------------------------------------------------------
(* Bounds of the model *)

\* longest explicit starting hand
MaxLen == 2
\* largest turn number passed to play_game / seek, and largest skip
MaxTurn == 3
\* largest number of resets (seek backwards) in one run
MaxResets == 2

\* number of cards on top of each half of the deck that the model lets
\* shuffle choose; the cards below them stay in the order of the new deck
DealTop == 2

\* ranks of those cards: the ranks whose wars ask for more than one wager
TopRanks == {12, 13, 14}

\* ranks of the explicit starting hands
HandRanks == {2, 13, 14}

\* the card ranks, range(2, 15)
Ranks == 2..14

Modes == {"fifo", "filo", "shuffled"}

----------------------------------------------------------------------------
(* Helpers on sequences *)

Min(a, b) == IF a < b THEN a ELSE b

Max(a, b) == IF a > b THEN a ELSE b

Reverse(s) == [i \in 1..Len(s) |-> s[Len(s) + 1 - i]]

\* number of occurrences of card c in list s
RECURSIVE Count(_, _)
Count(s, c) == IF s = <<>> THEN 0
               ELSE (IF Head(s) = c THEN 1 ELSE 0) + Count(Tail(s), c)

\* the list s without its first occurrence of card c
RECURSIVE RemoveOne(_, _)
RemoveOne(s, c) == IF s = <<>> THEN <<>>
                   ELSE IF Head(s) = c THEN Tail(s)
                   ELSE <<Head(s)>> \o RemoveOne(Tail(s), c)

\* all orderings of the list s
RECURSIVE Shuffles(_)
Shuffles(s) ==
    IF s = <<>> THEN {<<>>}
    ELSE UNION { { <<c>> \o t : t \in Shuffles(RemoveOne(s, c)) }
                 : c \in { s[i] : i \in 1..Len(s) } }

SameCards(s, t) == \A c \in Ranks : Count(s, c) = Count(t, c)

SeqsUpTo(n) == UNION { [1..k -> HandRanks] : k \in 0..n }

Total(player) == Len(player.hand) + Len(player.discard)

----------------------------------------------------------------------------
(* The engine's private methods, as functions from state to the set of    *)
(* states they can produce (several only where random is used).           *)

\* mutant of DiscardRecycleFunc: filo does not reverse the discard pile
DiscardRecycleFunc_NoReverse(player) ==
    CASE mode = "fifo" -> {player.discard}
      [] mode = "filo" -> {player.discard}
      [] mode = "shuffled" -> Shuffles(player.discard)

\* _set_discard_func: the lists the recycle function may return; for a
\* mode it does not know it returns None, and calling that returns no list
DiscardRecycleFunc(player) ==
    CASE mode = "fifo" -> {player.discard}
      [] mode = "filo" -> {Reverse(player.discard)}
      [] mode = "shuffled" -> Shuffles(player.discard)
      [] OTHER -> {}

\* __recycle_discard
RecycleDiscard(player) ==
    { [hand |-> player.hand \o d, discard |-> <<>>] : d \in DiscardRecycleFunc(player) }

\* __get_top_card: [card, player, raised]; raised when pop(0) fails twice
\* or when the recycle function cannot be called
GetTopCard(player) ==
    IF player.hand # <<>>
    THEN { [card |-> Head(player.hand),
            player |-> [player EXCEPT !.hand = Tail(player.hand)],
            raised |-> FALSE] }
    ELSE IF RecycleDiscard(player) = {}
    THEN { [card |-> 0, player |-> player, raised |-> TRUE] }
    ELSE { IF q.hand # <<>>
           THEN [card |-> Head(q.hand),
                 player |-> [q EXCEPT !.hand = Tail(q.hand)],
                 raised |-> FALSE]
           ELSE [card |-> 0, player |-> q, raised |-> TRUE]
           : q \in RecycleDiscard(player) }

\* mutant of AddToWinnings: the second group of cards is lost
AddToWinnings_DropSecond(w, card_list) == {w \o card_list[1]}

\* mutant of AddToWinnings: the two groups are always added in swapped order
AddToWinnings_Swapped(w, card_list) == {w \o card_list[2] \o card_list[1]}

\* mutant of AddToWinnings: the order is random whatever discard_randomness
AddToWinnings_AlwaysRandom(w, card_list) ==
    {w \o card_list[1] \o card_list[2], w \o card_list[2] \o card_list[1]}

\* __add_to_winnings: the winnings lists after adding card_list
AddToWinnings(w, card_list) ==
    IF randomness
    THEN {w \o card_list[1] \o card_list[2], w \o card_list[2] \o card_list[1]}
    ELSE {w \o card_list[1] \o card_list[2]}

\* mutant of WagerCount: an ace is wagered like a king
WagerCount_AceAsKing(play) ==
    IF play = 14 THEN 3
    ELSE IF play = 13 THEN 3
    ELSE IF play = 12 THEN 2
    ELSE 1

\* _do_battle, lines 218-225: the number of cards to wager on a tie
WagerCount(play) ==
    IF play = 14 THEN 4
    ELSE IF play = 13 THEN 3
    ELSE IF play = 12 THEN 2
    ELSE 1

\* mutant of Wager: the wager cards are drawn without counting what is left
RECURSIVE Wager_Unchecked(_, _, _)
Wager_Unchecked(player, i, cards) ==
    IF i > 0
    THEN UNION { IF g.raised
                 THEN {[cards |-> cards, player |-> g.player, raised |-> TRUE]}
                 ELSE Wager_Unchecked(g.player, i - 1, cards \o <<g.card>>)
                 : g \in GetTopCard(player) }
    ELSE {[cards |-> cards, player |-> player, raised |-> FALSE]}

\* mutant of Wager: a player keeps two cards back
RECURSIVE Wager_KeepTwo(_, _, _)
Wager_KeepTwo(player, i, cards) ==
    IF i > 0 /\ Total(player) > 2
    THEN UNION { IF g.raised
                 THEN {[cards |-> cards, player |-> g.player, raised |-> TRUE]}
                 ELSE Wager_KeepTwo(g.player, i - 1, cards \o <<g.card>>)
                 : g \in GetTopCard(player) }
    ELSE {[cards |-> cards, player |-> player, raised |-> FALSE]}

\* _do_battle, lines 230-235: one wager loop; [cards, player, raised]
RECURSIVE Wager(_, _, _)
Wager(player, i, cards) ==
    IF i > 0 /\ Total(player) > 1
    THEN UNION { IF g.raised
                 THEN {[cards |-> cards, player |-> g.player, raised |-> TRUE]}
                 ELSE Wager(g.player, i - 1, cards \o <<g.card>>)
                 : g \in GetTopCard(player) }
    ELSE {[cards |-> cards, player |-> player, raised |-> FALSE]}

NoLocals == [play_1 |-> 0, play_2 |-> 0, wagers |-> <<<<>>, <<>>>>, pool |-> <<>>]

\* outcome of _do_battle when an exception leaves it early
Raised(q1, q2, w, loc) ==
    [p1 |-> q1, p2 |-> q2, winnings |-> w, locals |-> loc, raised |-> TRUE]

\* mutant of Award: the winnings go under the discard pile
Award_Prepend(player, w) == [player EXCEPT !.discard = w \o @]

\* _do_battle, lines 207 and 210: discard.extend(self._winnings)
Award(player, w) == [player EXCEPT !.discard = @ \o w]

\* mutant of Allocate: the winnings go to the player of the lower card
Allocate_ToLoser(q1, q2, w, loc) ==
    IF loc.play_1 < loc.play_2
    THEN [p1 |-> Award(q1, w), p2 |-> q2, winnings |-> <<>>, locals |-> loc,
          raised |-> FALSE]
    ELSE [p1 |-> q1, p2 |-> Award(q2, w), winnings |-> <<>>, locals |-> loc,
          raised |-> FALSE]

\* mutant of Allocate: the winnings are not cleared
Allocate_KeepPool(q1, q2, w, loc) ==
    IF loc.play_1 > loc.play_2
    THEN [p1 |-> Award(q1, w), p2 |-> q2, winnings |-> w, locals |-> loc,
          raised |-> FALSE]
    ELSE [p1 |-> q1, p2 |-> Award(q2, w), winnings |-> w, locals |-> loc,
          raised |-> FALSE]

\* _do_battle, lines 206-211: the winner takes the winnings, which are cleared
Allocate(q1, q2, w, loc) ==
    IF loc.play_1 > loc.play_2
    THEN [p1 |-> Award(q1, w), p2 |-> q2, winnings |-> <<>>, locals |-> loc,
          raised |-> FALSE]
    ELSE [p1 |-> q1, p2 |-> Award(q2, w), winnings |-> <<>>, locals |-> loc,
          raised |-> FALSE]

\* _do_battle, lines 216-236: a tie; both players wager, nobody takes the winnings
War(q1, q2, w, loc) ==
    UNION { UNION {
        IF a.raised \/ b.raised
        THEN {Raised(a.player, b.player, w, loc)}
        ELSE {[p1 |-> a.player, p2 |-> b.player, winnings |-> w2,
               locals |-> [loc EXCEPT !.wagers = <<a.cards, b.cards>>],
               raised |-> FALSE]
              : w2 \in AddToWinnings(w, <<a.cards, b.cards>>)}
        : b \in IF a.raised
                THEN {[cards |-> <<>>, player |-> q2, raised |-> FALSE]}
                ELSE Wager(q2, WagerCount(loc.play_1), <<>>) }
      : a \in Wager(q1, WagerCount(loc.play_1), <<>>) }

\* _do_battle after both battle cards were drawn (lines 203-236);
\* locals.pool is self._winnings as it stands after line 203
Resolve(g1, g2, w) ==
    UNION { LET loc == [play_1 |-> g1.card, play_2 |-> g2.card,
                        wagers |-> <<<<>>, <<>>>>, pool |-> w1]
            IN IF g1.card # g2.card
               THEN {Allocate(g1.player, g2.player, w1, loc)}
               ELSE War(g1.player, g2.player, w1, loc)
            : w1 \in AddToWinnings(w, <<<<g1.card>>, <<g2.card>>>>) }

\* _do_battle: the set of outcomes of one turn from (q1, q2, w)
DoBattle(q1, q2, w) ==
    UNION { IF g1.raised
            THEN {Raised(g1.player, q2, w, NoLocals)}
            ELSE UNION { IF g2.raised
                         THEN {Raised(g1.player, g2.player, w, NoLocals)}
                         ELSE Resolve(g1, g2, w)
                         : g2 \in GetTopCard(q2) }
            : g1 \in GetTopCard(q1) }

\* __game_over, first branch: some player has no card left
OutOfCards(q1, q2) ==
    \/ (q1.hand = <<>> /\ q1.discard = <<>>)
    \/ (q2.hand = <<>> /\ q2.discard = <<>>)

\* mutant of GameOver: the cap stops the game one turn late
GameOver_Strict(q1, q2, h, m) == OutOfCards(q1, q2) \/ h > m

\* __game_over: the value returned
GameOver(q1, q2, h, m) == OutOfCards(q1, q2) \/ h >= m

\* mutant of FinishedFlag: the turn cap is tested first
FinishedFlag_CapFirst(q1, q2, h, m) == IF h >= m THEN "False" ELSE "True"

\* __game_over: the value stored in summary['finished'] when it returns True
FinishedFlag(q1, q2, h, m) == IF OutOfCards(q1, q2) THEN "True" ELSE "False"

----------------------------------------------------------------------------
(* Construction *)

\* _random_hands, line 163: list(range(2, 15)) * 4, the 52 cards
Deck ==
    LET suit == [i \in 1..13 |-> i + 1]
    IN suit \o suit \o suit \o suit

\* the list s without one occurrence of each card of cs
RECURSIVE RemoveAll(_, _)
RemoveAll(s, cs) ==
    IF cs = <<>> THEN s ELSE RemoveAll(RemoveOne(s, Head(cs)), Tail(cs))

\* _random_hands, line 164: the orders shuffle may leave the deck in, as far
\* as the model follows them: any DealTop cards of TopRanks on top of each
\* half of the deck, the other cards below them in the order of the new deck
DeckOrders ==
    { LET rest == RemoveAll(Deck, top_1 \o top_2)
          cut == 26 - Len(top_1)
      IN top_1 \o SubSeq(rest, 1, cut) \o top_2 \o SubSeq(rest, cut + 1, Len(rest))
      : <<top_1, top_2>> \in
          { t \in [1..DealTop -> TopRanks] \X [1..DealTop -> TopRanks] :
              \A c \in TopRanks : Count(t[1] \o t[2], c) <= Count(Deck, c) } }

\* _random_hands, lines 167-169: the first 26 cards of the shuffled deck to
\* player 1, the others to player 2
RandomDeals ==
    { <<SubSeq(c, 1, 26), SubSeq(c, 27, Len(c))>> : c \in DeckOrders }

\* explicit starting hands
ExplicitDeals == SeqsUpTo(MaxLen) \X SeqsUpTo(MaxLen)

\* __init__, with the recycle mode drawn from modes and the starting hands
\* from deals
ConstructIn(modes, deals) ==
    /\ mode \in modes
    /\ randomness \in BOOLEAN
    /\ starting_hands \in deals
    /\ dealt_1 = starting_hands[1]
    /\ dealt_2 = starting_hands[2]
    /\ player_1 = [hand |-> starting_hands[1], discard |-> <<>>]
    /\ player_2 = [hand |-> starting_hands[2], discard |-> <<>>]
    /\ winnings = <<>>
    /\ tracks = <<26>>
    /\ summary = [hands_played |-> 0, finished |-> "None", tracks |-> <<26>>]
    /\ aliased = FALSE
    /\ pc = "idle"
    /\ caller = "none"
    /\ hand = 0
    /\ max_hands = 0
    /\ last = NoLocals
    /\ error = "none"
    /\ resets = 0

\* __init__ with one of the recycle modes of the docstring
Construct(deals) == ConstructIn(Modes, deals)

----------------------------------------------------------------------------
(* Public methods *)

\* summary['tracks'] is the _tracks list itself until play_game or
\* __reset_game stores another object there
TracksShared == summary.finished = "None" /\ resets = 0

\* the dealt list is the player's hand list once __reset_game has run
DealtAfter(is_aliased, dealt, player) == IF is_aliased THEN player.hand ELSE dealt

\* play_game, lines 78-81: enter the loop
EnterLoop(who, h, m) ==
    /\ pc' = "loop"
    /\ caller' = who
    /\ hand' = h
    /\ max_hands' = m
    /\ error' = "none"

\* play_game(max_hands = m); m also stands for the default self.max_hands
PlayGame(m) ==
    /\ pc = "idle"
    /\ EnterLoop("play_game", summary.hands_played, m)
    /\ UNCHANGED <<player_1, player_2, winnings, tracks, summary, dealt_1,
                   dealt_2, aliased, mode, randomness, last, starting_hands,
                   resets>>

\* __reset_game
ResetGame ==
    /\ player_1' = [hand |-> dealt_1, discard |-> <<>>]
    /\ player_2' = [hand |-> dealt_2, discard |-> <<>>]
    /\ summary' = [hands_played |-> 0, finished |-> "None", tracks |-> <<26>>]
    /\ aliased' = TRUE
    /\ resets' = resets + 1

\* seek(turn): reset when already past the turn, then play_game(turn)
Seek(turn) ==
    /\ pc = "idle"
    /\ IF summary.hands_played > turn
       THEN /\ resets < MaxResets
            /\ ResetGame
            /\ EnterLoop("seek", 0, turn)
       ELSE /\ EnterLoop("seek", summary.hands_played, turn)
            /\ UNCHANGED <<player_1, player_2, summary, aliased, resets>>
    /\ UNCHANGED <<winnings, tracks, dealt_1, dealt_2, mode, randomness, last,
                   starting_hands>>

\* skip(turns)
Skip(turns) ==
    /\ pc = "idle"
    /\ summary.hands_played + turns <= MaxTurn
    /\ EnterLoop("skip", summary.hands_played, summary.hands_played + turns)
    /\ UNCHANGED <<player_1, player_2, winnings, tracks, summary, dealt_1,
                   dealt_2, aliased, mode, randomness, last, starting_hands,
                   resets>>

\* the exception a failed draw raises: pop from an empty list, or the call
\* of a recycle function that is None
DrawError == IF mode \in Modes THEN "IndexError" ELSE "TypeError"

\* play_game, lines 85-88: one iteration of the while loop
Turn ==
    /\ pc = "loop"
    /\ ~GameOver(player_1, player_2, hand, max_hands)
    /\ \E o \in DoBattle(player_1, player_2, winnings) :
         /\ player_1' = o.p1
         /\ player_2' = o.p2
         /\ winnings' = o.winnings
         /\ dealt_1' = DealtAfter(aliased, dealt_1, o.p1)
         /\ dealt_2' = DealtAfter(aliased, dealt_2, o.p2)
         /\ IF o.raised
            THEN /\ pc' = "idle"
                 /\ error' = DrawError
                 /\ hand' = 0
                 /\ max_hands' = 0
                 /\ UNCHANGED <<tracks, summary, last>>
            ELSE /\ tracks' = Append(tracks, Total(o.p1))
                 /\ summary' = IF TracksShared
                               THEN [summary EXCEPT !.tracks = tracks']
                               ELSE summary
                 /\ hand' = hand + 1
                 /\ last' = o.locals
                 /\ UNCHANGED <<pc, error, max_hands>>
    /\ UNCHANGED <<aliased, mode, randomness, caller, starting_hands, resets>>

\* mutant of ToDataframeEffect: only player 1's discard pile is recycled
ToDataframeEffect_FirstOnly ==
    IF mode = "shuffled"
    THEN /\ error' = "NameError"
         /\ UNCHANGED <<player_1, player_2, dealt_1, dealt_2>>
    ELSE /\ error' = "none"
         /\ \E q1 \in RecycleDiscard(player_1) :
              /\ player_1' = q1
              /\ player_2' = player_2
              /\ dealt_1' = DealtAfter(aliased, dealt_1, q1)
              /\ dealt_2' = dealt_2

\* to_dataframe, lines 132-138: the state change of building the table
ToDataframeEffect ==
    IF mode = "shuffled"
    THEN /\ error' = "NameError"
         /\ UNCHANGED <<player_1, player_2, dealt_1, dealt_2>>
    ELSE IF RecycleDiscard(player_1) = {}
    THEN /\ error' = "TypeError"
         /\ UNCHANGED <<player_1, player_2, dealt_1, dealt_2>>
    ELSE /\ error' = "none"
         /\ \E q1 \in RecycleDiscard(player_1), q2 \in RecycleDiscard(player_2) :
              /\ player_1' = q1
              /\ player_2' = q2
              /\ dealt_1' = DealtAfter(aliased, dealt_1, q1)
              /\ dealt_2' = DealtAfter(aliased, dealt_2, q2)

\* play_game, lines 85 and 91-95: the loop ends and play_game returns;
\* seek and skip go on to to_dataframe
Finish ==
    /\ pc = "loop"
    /\ GameOver(player_1, player_2, hand, max_hands)
    /\ summary' = [hands_played |-> hand,
                   finished |-> FinishedFlag(player_1, player_2, hand, max_hands),
                   tracks |-> tracks]
    /\ pc' = "idle"
    /\ IF caller = "play_game"
       THEN UNCHANGED <<player_1, player_2, dealt_1, dealt_2, error>>
       ELSE ToDataframeEffect
    /\ hand' = 0
    /\ max_hands' = 0
    /\ UNCHANGED <<winnings, tracks, aliased, mode, randomness, caller, last,
                   starting_hands, resets>>

\* to_dataframe called directly (also through __str__)
ToDataframe ==
    /\ pc = "idle"
    /\ caller' = "to_dataframe"
    /\ ToDataframeEffect
    /\ UNCHANGED <<winnings, tracks, summary, aliased, mode, randomness, pc,
                   hand, max_hands, last, starting_hands, resets>>

Next ==
    \/ \E m \in 0..MaxTurn : PlayGame(m)
    \/ \E t \in 0..MaxTurn : Seek(t)
    \/ \E n \in 0..MaxTurn : Skip(n)
    \/ ToDataframe
    \/ Turn
    \/ Finish

\* an engine constructed with explicit starting hands
Init == Construct(ExplicitDeals)

Spec == Init /\ [][Next]_vars

\* the engine driven by play_game alone
NextPlay ==
    \/ \E m \in 0..MaxTurn : PlayGame(m)
    \/ Turn
    \/ Finish

\* an engine constructed with explicit starting hands or a random deal
InitPlay == Construct(ExplicitDeals \cup RandomDeals)

SpecPlay == InitPlay /\ [][NextPlay]_vars

\* an engine with explicit starting hands driven by play_game, each call
\* running on until it returns
SpecPlayFair == Init /\ [][NextPlay]_vars /\ WF_vars(Turn) /\ WF_vars(Finish)

\* the engine driven forward: play_game, skip and to_dataframe, no seek
NextForward ==
    \/ \E m \in 0..MaxTurn : PlayGame(m)
    \/ \E n \in 0..MaxTurn : Skip(n)
    \/ ToDataframe
    \/ Turn
    \/ Finish

SpecForward == Init /\ [][NextForward]_vars

\* a recycle mode that _set_discard_func does not know
Unrecognized == "lifo"

\* an engine constructed with that mode
InitUnrecognized == ConstructIn({Unrecognized}, ExplicitDeals)

SpecUnrecognized == InitUnrecognized /\ [][NextForward]_vars

\* the turn cap of the scenario of the specification
ScenarioMaxHands == 5

\* the scenario's starting hands
ScenarioDeal == << <<14, 2>>, <<13, 2>> >>

InitScenario == Construct({ScenarioDeal})

NextScenario ==
    \/ \E m \in 0..ScenarioMaxHands : PlayGame(m)
    \/ Turn
    \/ Finish

\* the scenario's engine driven by play_game
SpecScenario == InitScenario /\ [][NextScenario]_vars

\* play_game(t) run to its end from the given state, for the recycle modes
\* and settings that leave no choice to random
RECURSIVE Replay(_, _, _, _, _, _)
Replay(q1, q2, w, tr, h, t) ==
    IF GameOver(q1, q2, h, t)
    THEN [player_1 |-> q1, player_2 |-> q2, winnings |-> w,
          hands_played |-> h, tracks |-> tr]
    ELSE LET o == CHOOSE o \in DoBattle(q1, q2, w) : TRUE
         IN Replay(o.p1, o.p2, o.winnings, Append(tr, Total(o.p1)), h + 1, t)

\* seek(t) on a freshly constructed engine with the starting hands deal
FreshSeek(deal, t) ==
    LET e == Replay([hand |-> deal[1], discard |-> <<>>],
                    [hand |-> deal[2], discard |-> <<>>], <<>>, <<26>>, 0, t)
    IN [e EXCEPT !.player_1 = CHOOSE q \in RecycleDiscard(e.player_1) : TRUE,
                 !.player_2 = CHOOSE q \in RecycleDiscard(e.player_2) : TRUE]

\* what a caller can see of the engine between calls
EngineView ==
    [player_1 |-> player_1, player_2 |-> player_2, winnings |-> winnings,
     hands_played |-> summary.hands_played, tracks |-> summary.tracks]

\* an engine whose recycle mode and settings leave no choice to random
InitDeterministic == Init /\ mode # "shuffled" /\ ~randomness

\* nothing was called on the engine since its construction
Fresh == caller = "none"

\* one call of seek or of skip on a freshly constructed engine
NextFresh ==
    \/ \E t \in 0..MaxTurn : Fresh /\ Seek(t)
    \/ \E n \in 0..MaxTurn : Fresh /\ Skip(n)
    \/ Turn
    \/ Finish

SpecFresh == InitDeterministic /\ [][NextFresh]_vars

\* an engine driven by skip alone
NextSkip ==
    \/ \E n \in 0..MaxTurn : Skip(n)
    \/ Turn
    \/ Finish

SpecSkip == InitDeterministic /\ [][NextSkip]_vars

\* skip(turns) on a freshly constructed engine with the starting hands deal
FreshSkip(deal, turns) ==
    LET e == Replay([hand |-> deal[1], discard |-> <<>>],
                    [hand |-> deal[2], discard |-> <<>>], <<>>, <<26>>, 0,
                    0 + turns)
    IN [e EXCEPT !.player_1 = CHOOSE q \in RecycleDiscard(e.player_1) : TRUE,
                 !.player_2 = CHOOSE q \in RecycleDiscard(e.player_2) : TRUE]

\* np.NaN, the filler of the shorter column of the table
NaN == 0

\* to_dataframe, lines 141-154: the table built from the two hands, the
\* longer hand first (player 1 first when equal), the shorter one filled
Table(h1, h2) ==
    LET n == Max(Len(h1), Len(h2))
        Filled(h) == h \o [i \in 1..(n - Len(h)) |-> NaN]
    IN [columns |-> IF Len(h1) >= Len(h2) THEN <<"P1", "P2">>
                                          ELSE <<"P2", "P1">>,
        P1 |-> Filled(h1),
        P2 |-> Filled(h2)]

----------------------------------------------------------------------------
(* Properties *)

\* a step of play_game's loop that resolved a turn
TurnStep == pc = "loop" /\ hand' = hand + 1

\* s is a leading part of t
IsPrefix(s, t) == Len(s) <= Len(t) /\ SubSeq(t, 1, Len(s)) = s

\* the cards `drawn` were taken in order from the front of the hand of q,
\* whose discard pile came into the hand when the hand ran out; r is the
\* player after the draws
DrawnInOrder(q, r, drawn) ==
    IF Len(drawn) <= Len(q.hand)
    THEN drawn \o r.hand = q.hand /\ r.discard = q.discard
    ELSE /\ r.discard = <<>>
         /\ \E d \in DiscardRecycleFunc(q) : drawn \o r.hand = q.hand \o d

\* the cards a player drew in the latest turn
Drawn1(loc) == <<loc.play_1>> \o loc.wagers[1]
Drawn2(loc) == <<loc.play_2>> \o loc.wagers[2]

\* C1: card conservation. Driven by play_game alone, the cards in both
\* players' hands and discards and in the winnings pool always number as
\* many as the two starting hands.
CardConservation ==
    Total(player_1) + Total(player_2) + Len(winnings)
        = Len(starting_hands[1]) + Len(starting_hands[2])

\* C1 witness: two turns played, a tie pending and won cards in a discard
CardConservationWitness ==
    /\ Len(tracks) >= 3
    /\ winnings # <<>>
    /\ player_1.discard # <<>> \/ player_2.discard # <<>>
    /\ ~OutOfCards(player_1, player_2)

\* the wager rule as the claim states it
ClaimedWager(r) == CASE r = 14 -> 4 [] r = 13 -> 3 [] r = 12 -> 2 [] OTHER -> 1

\* C2: war wager count. In a tied turn each player wagers exactly
\* min(N, max(0, T - 1)) cards, N by the rank of the tie and T the player's
\* hand+discard count right after the battle card was drawn; a wager never
\* takes a player's last card.
WagerRule ==
    [][ (TurnStep /\ last'.play_1 = last'.play_2) =>
          /\ LET T1 == Total(player_1) - 1
                 T2 == Total(player_2) - 1
             IN /\ Len(last'.wagers[1])
                     = Min(ClaimedWager(last'.play_1), Max(0, T1 - 1))
                /\ Len(last'.wagers[2])
                     = Min(ClaimedWager(last'.play_2), Max(0, T2 - 1))
          /\ (last'.wagers[1] # <<>> => Total(player_1') >= 1)
          /\ (last'.wagers[2] # <<>> => Total(player_2') >= 1)
          /\ Total(player_1') = Total(player_1) - 1 - Len(last'.wagers[1])
          /\ Total(player_2') = Total(player_2) - 1 - Len(last'.wagers[2])
      ]_vars

\* C2 witness: a tie of aces on a random deal in which each player wagers
\* four cards, after a turn that player 1 lost
WagerRuleWitness ==
    /\ last.play_1 = 14
    /\ last.play_2 = 14
    /\ Len(last.wagers[1]) = 4
    /\ Len(last.wagers[2]) = 4
    /\ Len(tracks) = 3
    /\ tracks[2] = 25
    /\ tracks[3] = 20

\* the discard pile of q once q has drawn a battle card
DiscardAfterDraw(q) == IF q.hand = <<>> THEN <<>> ELSE q.discard

\* the pools a turn can compare: the pool carried over, then the two battle cards
PoolsCompared(w, a, b) ==
    IF randomness THEN {w \o <<a, b>>, w \o <<b, a>>} ELSE {w \o <<a, b>>}

\* C3: in a turn with unequal ranks the whole pool, the carried-over cards
\* followed by the two battle cards, is appended in order to the winner's
\* discard pile; the pool is empty afterwards and the loser receives nothing.
WinnerTakesPool ==
    [][ (TurnStep /\ last'.play_1 # last'.play_2) =>
          /\ last'.pool \in PoolsCompared(winnings, last'.play_1, last'.play_2)
          /\ winnings' = <<>>
          /\ IF last'.play_1 > last'.play_2
             THEN /\ player_1'.discard = DiscardAfterDraw(player_1) \o last'.pool
                  /\ player_2'.discard = DiscardAfterDraw(player_2)
                  /\ Total(player_2') = Total(player_2) - 1
             ELSE /\ player_2'.discard = DiscardAfterDraw(player_2) \o last'.pool
                  /\ player_1'.discard = DiscardAfterDraw(player_1)
                  /\ Total(player_1') = Total(player_1) - 1
      ]_vars

\* C3 witness: a decided turn whose pool carried cards over from a tie
WinnerTakesPoolWitness ==
    /\ last.play_1 # last.play_2
    /\ Len(last.pool) > 2
    /\ winnings = <<>>
    /\ \/ (last.play_1 > last.play_2 /\ IsPrefix(last.pool, player_1.discard))
       \/ (last.play_1 < last.play_2 /\ IsPrefix(last.pool, player_2.discard))

\* C4: deferred war resolution. A tied turn moves no card into a discard
\* pile; without randomization the pool after it is the previous pool, the
\* two battle cards, player 1's wagers and player 2's wagers, each in draw
\* order; the pool only grows until a turn with unequal ranks, whose winner
\* receives it whole.
DeferredWar ==
    [][ /\ (TurnStep /\ last'.play_1 = last'.play_2) =>
              /\ player_1'.discard \in {player_1.discard, <<>>}
              /\ player_2'.discard \in {player_2.discard, <<>>}
              /\ DrawnInOrder(player_1, player_1', Drawn1(last'))
              /\ DrawnInOrder(player_2, player_2', Drawn2(last'))
              /\ IsPrefix(winnings, winnings')
              /\ (~randomness =>
                    winnings' = winnings \o <<last'.play_1, last'.play_2>>
                                   \o last'.wagers[1] \o last'.wagers[2])
        /\ (TurnStep /\ last'.play_1 > last'.play_2) =>
              /\ IsPrefix(DiscardAfterDraw(player_1) \o winnings, player_1'.discard)
              /\ Len(player_1'.discard)
                    = Len(DiscardAfterDraw(player_1)) + Len(winnings) + 2
        /\ (TurnStep /\ last'.play_1 < last'.play_2) =>
              /\ IsPrefix(DiscardAfterDraw(player_2) \o winnings, player_2'.discard)
              /\ Len(player_2'.discard)
                    = Len(DiscardAfterDraw(player_2)) + Len(winnings) + 2
        /\ ~TurnStep => winnings' = winnings
      ]_vars

\* C4 witness: the second of two consecutive tied turns, randomization off
DeferredWarWitness ==
    /\ ~randomness
    /\ last.play_1 = last.play_2
    /\ last.play_1 # 0
    /\ Len(last.pool) > 2
    /\ IsPrefix(last.pool, winnings)

\* C5 as stated: after a turn, while both players still hold cards, the
\* winnings pool is empty.
PoolEmptyBetweenTurns ==
    (Len(tracks) > 1 /\ ~OutOfCards(player_1, player_2)) => winnings = <<>>

\* C5 amended: the pool is empty at construction and after every turn with
\* unequal ranks; after a tied turn it holds the cards staked so far.
PoolEmptyAfterDecidedTurn ==
    /\ (last.play_1 # last.play_2 \/ Len(tracks) = 1) => winnings = <<>>
    /\ (last.play_1 = last.play_2 /\ Len(tracks) > 1) => Len(winnings) >= 2

\* C5 witness: a decided turn that followed a tie has emptied the pool
PoolEmptyWitness ==
    /\ last.play_1 # last.play_2
    /\ Len(last.pool) >= 4
    /\ winnings = <<>>
    /\ ~OutOfCards(player_1, player_2)

\* C6 as stated: in the scenario (fifo, no randomization, cap 5) turn 1
\* leaves player 1 with hand [2] and discard [14,13]; in turn 2, a tie of
\* twos, nobody wagers and the pool is [2,2].
ScenarioAsStated ==
    (mode = "fifo" /\ ~randomness /\ pc = "loop" /\ max_hands = 5) =>
        /\ hand = 1 => player_1 = [hand |-> <<2>>, discard |-> <<14, 13>>]
        /\ hand = 2 => /\ last.play_1 = 2
                       /\ last.play_2 = 2
                       /\ last.wagers = << <<>>, <<>> >>
                       /\ winnings = <<2, 2>>

\* C6 amended: turn 1 as stated; in turn 2 player 1, who holds two more
\* cards, wagers the 14 recycled from its discard pile and player 2, who
\* holds none, wagers nothing: the pool is [2,2,14] and player 2 is out of
\* cards.
ScenarioAsPlayed ==
    (mode = "fifo" /\ ~randomness /\ pc = "loop" /\ max_hands = 5) =>
        /\ hand = 1 => /\ player_1 = [hand |-> <<2>>, discard |-> <<14, 13>>]
                       /\ player_2 = [hand |-> <<2>>, discard |-> <<>>]
                       /\ winnings = <<>>
        /\ hand = 2 => /\ last.play_1 = 2
                       /\ last.play_2 = 2
                       /\ last.wagers = << <<14>>, <<>> >>
                       /\ winnings = <<2, 2, 14>>
                       /\ player_1 = [hand |-> <<13>>, discard |-> <<>>]
                       /\ player_2 = [hand |-> <<>>, discard |-> <<>>]
        /\ hand <= 2

\* C6 witness: the scenario after its second turn
ScenarioWitness ==
    /\ mode = "fifo"
    /\ ~randomness
    /\ pc = "loop"
    /\ max_hands = 5
    /\ hand = 2
    /\ last.play_1 = 2
    /\ last.play_2 = 2

\* __reset_game runs at this step
ResetStep == resets' = resets + 1

\* a turn was resolved at this step: play_game appended its entry to _tracks
TurnResolved == Len(tracks') = Len(tracks) + 1

\* the count of turns play_game keeps: its loop counter while it runs, and
\* hands_played of the summary between calls
TurnCount == IF pc = "loop" THEN hand ELSE summary.hands_played

\* C7: whenever play_game returns, called directly or by seek or skip,
\* finished is True if some player holds no card in hand and discard pile
\* (a deal with an empty starting hand included) and False otherwise, never
\* None, and hands_played is the number of turns resolved since construction
\* or the last reset: the count starts at 0, a reset sets it to 0, every
\* resolved turn adds one to it and no other step changes it; while no
\* reset has run it is the number of entries the turns added to the history.
FinishedFlagRule ==
    /\ [](pc = "idle" /\ caller = "none" => summary.hands_played = 0)
    /\ [](pc = "idle" /\ caller = "play_game" =>
            /\ error = "none"
            /\ summary.finished
                 = IF Total(player_1) = 0 \/ Total(player_2) = 0
                   THEN "True" ELSE "False")
    /\ [](pc = "idle" /\ resets = 0 =>
            summary.hands_played = Len(tracks) - 1)
    /\ [][ /\ (pc = "loop" /\ pc' = "idle") =>
                 /\ summary'.finished
                      = IF Total(player_1) = 0 \/ Total(player_2) = 0
                        THEN "True" ELSE "False"
                 /\ summary'.hands_played = hand
           /\ TurnCount' = IF ResetStep THEN 0
                           ELSE IF TurnResolved THEN TurnCount + 1
                           ELSE TurnCount
         ]_vars

\* C7 witness: play_game has returned after a reset with a player out of
\* cards: finished is True, and hands_played counts the turns since the reset,
\* fewer than the entries the turns added to the history since construction
FinishedFlagWitness ==
    /\ pc = "idle"
    /\ caller = "play_game"
    /\ resets > 0
    /\ Total(player_1) = 0 \/ Total(player_2) = 0
    /\ summary.finished = "True"
    /\ summary.hands_played > 0
    /\ summary.hands_played < Len(tracks) - 1

\* play_game is running its first call on a newly constructed engine
FreshCall == pc = "loop" /\ summary.finished = "None" /\ Len(tracks) = 1 /\ resets = 0

\* play_game returns at this step having resolved no turn, with finished
\* False and hands_played 0
ReturnsCapped ==
    /\ pc' = "idle"
    /\ summary'.finished = "False"
    /\ summary'.hands_played = 0
    /\ tracks' = tracks
    /\ player_1' = player_1
    /\ player_2' = player_2
    /\ winnings' = winnings

\* C8 as stated: play_game with cap 0 on a fresh engine resolves no turn and
\* reports finished False and hands_played 0, whatever the starting hands.
ZeroCapAsStated ==
    [][ (FreshCall /\ max_hands = 0) => ReturnsCapped ]_vars

\* C8 amended: the same, for starting hands that give both players a card.
ZeroCapWithCards ==
    [][ (FreshCall /\ max_hands = 0 /\ ~OutOfCards(player_1, player_2))
            => ReturnsCapped ]_vars

\* C8 witness: a first play_game with cap 0 has returned, both players
\* holding cards
ZeroCapWitness ==
    /\ pc = "idle"
    /\ caller = "play_game"
    /\ Len(tracks) = 1
    /\ summary.finished = "False"
    /\ summary.hands_played = 0
    /\ player_1.hand # <<>>
    /\ player_2.hand # <<>>

\* the discard pile d as the claim orders it for the hand, list by list
ClaimedOrder(d, e) ==
    /\ Len(e) = Len(d)
    /\ mode = "fifo" => e = d
    /\ mode = "filo" => \A k \in 1..Len(d) : e[k] = d[Len(d) + 1 - k]
    /\ mode = "shuffled" => SameCards(e, d)

\* q recycled its discard pile and then lost the cards `drawn` from the
\* front of its hand, giving hand h
RecycledThenDrawn(q, drawn, h) ==
    LET all == drawn \o h
    IN /\ Len(all) = Len(q.hand) + Len(q.discard)
       /\ SubSeq(all, 1, Len(q.hand)) = q.hand
       /\ ClaimedOrder(q.discard, SubSeq(all, Len(q.hand) + 1, Len(all)))

\* C9: recycling appends the discard pile to the end of the hand, oldest
\* first in fifo mode, newest first in filo mode, in some order in shuffled
\* mode, leaves the discard pile empty and leaves the cards of the hand in
\* place. Checked where the engine recycles: a draw from an empty hand, and
\* the table built by to_dataframe.
RecycleOrder ==
    [][ /\ (TurnStep /\ Len(Drawn1(last')) > Len(player_1.hand)) =>
              /\ RecycledThenDrawn(player_1, Drawn1(last'), player_1'.hand)
              /\ player_1'.discard
                   = IF last'.play_1 > last'.play_2 THEN last'.pool ELSE <<>>
        /\ (TurnStep /\ Len(Drawn2(last')) > Len(player_2.hand)) =>
              /\ RecycledThenDrawn(player_2, Drawn2(last'), player_2'.hand)
              /\ player_2'.discard
                   = IF last'.play_1 < last'.play_2 THEN last'.pool ELSE <<>>
        /\ (pc' = "idle" /\ error' = "none"
              /\ caller' \in {"seek", "skip", "to_dataframe"}) =>
              /\ RecycledThenDrawn(player_1, <<>>, player_1'.hand)
              /\ RecycledThenDrawn(player_2, <<>>, player_2'.hand)
              /\ player_1'.discard = <<>>
              /\ player_2'.discard = <<>>
      ]_vars

\* C9 witness: in filo mode player 1, dealt two cards, held two different
\* cards in its discard pile and none in its hand after two turns, and
\* recycled them for the third turn
RecycleOrderWitness ==
    /\ mode = "filo"
    /\ Len(starting_hands[1]) = 2
    /\ Len(tracks) = 4
    /\ tracks[3] = 2
    /\ LET all == Drawn1(last) \o player_1.hand
       IN Len(all) = 2 /\ all[1] # all[2]

\* this call of seek has reset the engine
SeekDidReset == caller = "seek" /\ summary.finished = "None" /\ resets > 0

\* C10: in fifo or filo mode without randomization, seek(t) on an engine
\* that has played more than t turns leaves the hands, discards, winnings,
\* hands_played and history of a fresh engine after seek(t).
SeekReplaysDeal ==
    [][ (pc = "loop" /\ pc' = "idle" /\ SeekDidReset /\ mode # "shuffled"
           /\ ~randomness)
          => EngineView' = FreshSeek(starting_hands, max_hands) ]_vars

\* C11: every reset leaves each hand equal to the hand dealt at construction,
\* both discard piles and the winnings empty, hands_played 0, finished None
\* and the history equal to the starting snapshot; the recorded deal
\* (p1_dealt, p2_dealt) is never changed by a reset or by the play after it.
ResetRestoresDeal ==
    [][ /\ ResetStep =>
              /\ player_1' = [hand |-> starting_hands[1], discard |-> <<>>]
              /\ player_2' = [hand |-> starting_hands[2], discard |-> <<>>]
              /\ winnings' = <<>>
              /\ summary' = [hands_played |-> 0, finished |-> "None",
                             tracks |-> <<26>>]
        /\ dealt_1' = starting_hands[1]
        /\ dealt_2' = starting_hands[2]
      ]_vars

\* what a call of seek or skip leaves and returns: the engine's state and
\* the table
Returned ==
    [state |-> EngineView, table |-> Table(player_1.hand, player_2.hand)]

\* the same for seek(t) and for skip(t) on a fresh engine with the hands deal
SeekResult(deal, t) ==
    LET e == FreshSeek(deal, t)
    IN [state |-> e, table |-> Table(e.player_1.hand, e.player_2.hand)]

SkipResult(deal, t) ==
    LET e == FreshSkip(deal, t)
    IN [state |-> e, table |-> Table(e.player_1.hand, e.player_2.hand)]

\* C12: for every n, in fifo or filo mode without randomization, seek(n) on
\* a freshly constructed engine and skip(n) on another freshly constructed
\* engine with the same starting hands end in the same hands, discards,
\* winnings, hands_played and history and return the same table: each call,
\* as it returns, has what the other call gives for the same hands and n.
SeekSkipEquivalent ==
    [][ (pc = "loop" /\ pc' = "idle") =>
          /\ caller = "seek" =>
                Returned' = SkipResult(starting_hands, max_hands)
          /\ caller = "skip" =>
                Returned' = SeekResult(starting_hands, max_hands)
      ]_vars

\* C12 witness: skip(3) on a fresh filo engine has returned after three
\* turns, with what seek(3) gives, player 2 holding the longer column
SeekSkipWitness ==
    /\ pc = "idle"
    /\ caller = "skip"
    /\ mode = "filo"
    /\ summary.hands_played = 3
    /\ Returned = SeekResult(starting_hands, 3)
    /\ Returned.table.columns = <<"P2", "P1">>
    /\ Len(player_1.hand) > 0

\* the engine after the turns played so far, as play_game gives it from the
\* starting hands when nothing is left to random
Replayed ==
    Replay([hand |-> starting_hands[1], discard |-> <<>>],
           [hand |-> starting_hands[2], discard |-> <<>>], <<>>, <<26>>, 0,
           Len(tracks) - 1)

\* C13: with explicit starting hands, fifo or filo mode and randomization
\* off, the history and the hands, discards and winnings after every turn
\* of play_game are fixed by the starting hands and the mode, so two such
\* engines agree turn by turn: each turn has a single outcome, and every
\* engine is in the state replayed from its starting hands.
DeterministicReplay ==
    (mode # "shuffled" /\ ~randomness) =>
        /\ (pc = "loop" /\ ~GameOver(player_1, player_2, hand, max_hands)) =>
              Cardinality(DoBattle(player_1, player_2, winnings)) = 1
        /\ player_1 = Replayed.player_1
        /\ player_2 = Replayed.player_2
        /\ winnings = Replayed.winnings
        /\ tracks = Replayed.tracks

\* C13 witness: a filo engine without randomization three turns into the
\* game, the second and the third turn wars with wagers
DeterministicReplayWitness ==
    /\ mode = "filo"
    /\ ~randomness
    /\ Len(tracks) = 4
    /\ last.wagers[1] # <<>>
    /\ last.wagers[2] # <<>>
    /\ Len(last.pool) > 2
    /\ tracks = Replayed.tracks
    /\ player_1 = Replayed.player_1

\* C14: constructing an engine with a recycle mode other than fifo, filo
\* or shuffled fails at once with a configuration error: no engine with
\* such a mode exists, and no call runs and no turn is played on one.
UnrecognizedModeRejected ==
    mode \notin Modes =>
        /\ error = "ConfigurationError"
        /\ pc = "idle"
        /\ caller = "none"
        /\ Len(tracks) = 1

\* the calls that ask for the table
TableCalls == {"seek", "skip", "to_dataframe"}

\* C15: in shuffled mode every call of to_dataframe, seek or skip fails with
\* the error of to_dataframe and leaves both hands, both discard piles, the
\* winnings and the summary as they were before the call: no step of such a
\* call changes them, and the call returns with the error.
ShuffledTableUntouched ==
    [][ (mode = "shuffled" /\ caller' \in TableCalls) =>
          /\ UNCHANGED <<player_1, player_2, winnings, summary>>
          /\ pc' = "idle" => error' = "NameError"
      ]_vars

\* the turns the running call of play_game has resolved: hands_played of
\* the summary is still the count the call started from
ResolvedInCall == hand - summary.hands_played

\* C16: every call play_game(max_hands) returns, having resolved at most
\* max(0, max_hands - h) turns, h being hands_played when the call starts,
\* whatever the starting hands and the recycle mode.
TurnCapBounds ==
    /\ [](pc = "loop" =>
            ResolvedInCall <= Max(0, max_hands - summary.hands_played))
    /\ (pc = "loop") ~> (pc = "idle")

\* C16 witness: play_game has returned at the cap, both players still
\* holding cards and the winnings of a war waiting for the next turn
TurnCapWitness ==
    /\ pc = "idle"
    /\ caller = "play_game"
    /\ summary.finished = "False"
    /\ summary.hands_played = MaxTurn
    /\ ~OutOfCards(player_1, player_2)
    /\ winnings # <<>>

\* C17: on an engine driven by play_game from construction the history has
\* hands_played + 1 entries, entry 0 is the size of player 1's dealt hand
\* and entry k is player 1's count of cards, hand and discard, right after
\* turn k: between calls for the entries of the summary, and at each turn
\* for the entry the turn adds.
HistoryContent ==
    [][ /\ pc' = "idle" =>
              /\ Len(summary'.tracks) = summary'.hands_played + 1
              /\ summary'.tracks[1] = Len(starting_hands[1])
        /\ TurnStep => tracks' = Append(tracks, Total(player_1'))
      ]_vars

\* a player's count of cards, hand and discard, moved from q to r across a
\* turn where the player's battle card was mine and the other's was theirs
MovesWithOutcome(q, r, mine, theirs) ==
    /\ Total(r) > Total(q) => mine > theirs
    /\ Total(r) < Total(q) => mine <= theirs

\* C18: across a turn a player's count of cards, hand and discard, goes up
\* only if that player played the strictly higher battle card and goes down
\* only if that player played the strictly lower one or the turn was a tie;
\* recycling a discard pile into a hand, for the table as within a turn,
\* does not change it.
CountFollowsOutcome ==
    [][ /\ TurnStep =>
              /\ MovesWithOutcome(player_1, player_1', last'.play_1, last'.play_2)
              /\ MovesWithOutcome(player_2, player_2', last'.play_2, last'.play_1)
        /\ (pc' = "idle" /\ caller' \in TableCalls) =>
              /\ Total(player_1') = Total(player_1)
              /\ Total(player_2') = Total(player_2)
      ]_vars

\* C18 witness: the first turn was a tie that cost each player a card, the
\* second was won by player 1, who took the four cards of the winnings, and
\* the table was then built from player 1's recycled discard pile
CountFollowsOutcomeWitness ==
    /\ pc = "idle"
    /\ caller = "skip"
    /\ error = "none"
    /\ Len(tracks) = 3
    /\ tracks[2] = 1
    /\ tracks[3] = 4
    /\ last.play_1 > last.play_2
    /\ Len(last.pool) = 4
    /\ player_1 = [hand |-> last.pool, discard |-> <<>>]

\* C19: in fifo and in filo mode without randomization, skip(a) followed
\* by skip(b) ends with the hands_played, history, hands, discards and
\* winnings of a single skip(a + b) on the same starting hands: on an engine
\* driven by skip alone, every call returns with what one skip up to the
\* same turn gives on a fresh engine.
SkipComposes ==
    [][ (pc = "loop" /\ pc' = "idle" /\ caller = "skip") =>
            EngineView' = FreshSkip(starting_hands, max_hands) ]_vars

\* C20: in any run of play_game, seek and skip under a recycle mode the
\* engine knows, no card is drawn, for the battle or for a wager, from a
\* player whose hand and discard pile are both empty: no turn can raise the
\* error of an empty draw, no call has returned with it, and a call that
\* returns with a player out of cards reports it in the finished flag.
NoDrawFromExhausted ==
    /\ (pc = "loop" /\ ~GameOver(player_1, player_2, hand, max_hands)) =>
          \A o \in DoBattle(player_1, player_2, winnings) : ~o.raised
    /\ error # "IndexError"
    /\ (pc = "idle" /\ caller \in {"play_game", "seek", "skip"}
          /\ OutOfCards(player_1, player_2)) => summary.finished = "True"

\* C20 witness: after a reset, seek has returned from a game that ended in
\* a war: player 1 wagered fewer cards than the rank asks for, to keep its
\* last one, and player 2 had none to wager
NoDrawFromExhaustedWitness ==
    /\ pc = "idle"
    /\ caller = "seek"
    /\ resets > 0
    /\ error = "none"
    /\ summary.finished = "True"
    /\ last.play_1 = last.play_2
    /\ last.wagers[1] # <<>>
    /\ Len(last.wagers[1]) < WagerCount(last.play_1)
    /\ last.wagers[2] = <<>>
    /\ Total(player_1) = 1
    /\ Total(player_2) = 0

====
